---- MODULE Spec2Model ----
(***************************************************************************)
(* A model of the LPC MCP server: the bridge that serves the tools         *)
(* lpc_hover, lpc_definition, lpc_references and lpc_diagnostics by        *)
(* talking JSON-RPC to one language-server subprocess.                     *)
(*                                                                         *)
(* The server of src/unnamed/part_001 registers one callback per tool; the *)
(* server of src/src/index.js serves all tools from one call-tool          *)
(* dispatcher.  Both share startLSP, the diagnostics cache and the steps   *)
(* of an invocation; they differ in how an invocation enters.              *)
(***************************************************************************)
EXTENDS Integers, Sequences, FiniteSets, TLC

\* Number of tool invocations made during one run of the server.
MaxInv == 2

\* Number of responses the engine sends that answer no outstanding request.
MaxDropped == 1

\* Length of the data the engine writes to its stdout, in tokens.
MaxChunk == 4

\* version sent in every textDocument/didOpen
DidOpenVersion == 1

\* The file the client asks about, and another file of the workspace that
\* the engine publishes diagnostics for.
Files == {"/m/room.c"}
OtherFile == "/m/obj.c"
\* args.file of an arguments object that has no file property
NoFile == "undefined"
\* request.params.arguments missing altogether
NoArgs == "no-arguments"
\* The text the read of invocation i returns.  The file may be edited between
\* any two reads, so every read has a text of its own.
FileText(i) == <<"text of read", i>>
NoText == <<>>

PositionTools == {"lpc_hover", "lpc_definition", "lpc_references"}
Tools == PositionTools \cup {"lpc_diagnostics"}
UnknownTool == "lpc_rename"
ToolNames == Tools \cup {UnknownTool}
ArgShapes == Files \cup {NoFile, NoArgs}

URIOf(file) == <<"file://", file>>
NoUri == <<>>
Uris == {URIOf(f) : f \in Files \cup {OtherFile}}

\* Diagnostics as the engine publishes them: severity code, zero-indexed
\* start of the range, message.
Diag(s, l, c, m) == [severity |-> s, line |-> l, character |-> c, message |-> m]
D1 == Diag(1, 2, 3, "undefined symbol")
D2 == Diag(2, 0, 0, "unused variable")
D3 == Diag(3, 0, 9, "deprecated efun")
D4 == Diag(4, 7, 1, "could be static")
DiagSeqs == {<<>>, <<D1, D2, D3, D4>>}

VARIABLES
  runPc,             \* position of run()
  startPc,           \* position of startLSP()
  initRequest,       \* the promise of sendRequest("initialize")
  initTimer,         \* the 5 s timer raced against initialize
  lspProcess,        \* this.lspProcess
  lspConnection,     \* this.lspConnection
  nextId,            \* the connection's next request id
  pending,           \* ids of position requests awaiting a response
  wire,              \* every message written to the engine, in order
  diagnosticsCache,  \* this.diagnosticsCache: uri -> diagnostics
  lastPush,          \* per uri, the diagnostics of the latest notification
  inv,               \* the tool invocations
  stdout,            \* chunks the engine's stdout has yet to emit
  piped,             \* per chunk transformed: the chunk and what was pushed
  dropped,           \* ids of responses that matched no pending request
  directories,       \* names of the installed jlchmura.lpc-* extensions
  latestExtension,   \* the name startLSP has picked
  handlers           \* notification methods with a registered handler

vars == <<runPc, startPc, initRequest, initTimer, lspProcess, lspConnection,
          nextId, pending, wire, diagnosticsCache, lastPush, inv, stdout,
          piped, dropped, directories,
                 latestExtension, handlers>>

Invs == 1..MaxInv

----------------------------------------------------------------------------
\* Messages written to the engine.

Msg(method, id, uri, version, text, by) ==
  [method |-> method, id |-> id, uri |-> uri, version |-> version,
   text |-> text, by |-> by]

InitializeMsg(id) == Msg("initialize", id, NoUri, 0, NoText, 0)
PublishDiagnosticsMethod == "textDocument/publishDiagnostics"

InitializedMsg == Msg("initialized", -1, NoUri, 0, NoText, 0)

DidOpenMsg(uri, fileContent, i) ==
  Msg("textDocument/didOpen", -1, uri, DidOpenVersion, fileContent, i)

PositionMethod(tool) ==
  CASE tool = "lpc_hover" -> "textDocument/hover"
    [] tool = "lpc_definition" -> "textDocument/definition"
    [] tool = "lpc_references" -> "textDocument/references"

PositionRequest(tool, uri, id, i) == Msg(PositionMethod(tool), id, uri, 0, NoText, i)

----------------------------------------------------------------------------
\* Tool results.

\* JSON.stringify(value, null, 2)
JSONText(value) == <<"json", value>>

NoResult == [kind |-> "none", isError |-> FALSE, text |-> <<>>]

\* return {content: [{type: "text", text}]}
SuccessResult(text) == [kind |-> "returned", isError |-> FALSE, text |-> text]

\* an exception that leaves the handler
Thrown(message) == [kind |-> "thrown", isError |-> FALSE, text |-> message]

\* Mutant of ErrorResult: the catch block rethrows.
ErrorResultRethrow(message) == Thrown(message)

\* catch(error): return {content: [{type: "text", text: `Error: ${error.message}`}], isError: true}
ErrorResult(message) ==
  [kind |-> "returned", isError |-> TRUE, text |-> <<"Error: ", message>>]

\* error.message of the failures an invocation can meet
NotInitializedMessage == <<"LSP not initialized">>
NoArgsMessage == <<"Cannot read properties of undefined (reading 'file')">>
ReadErrors == {<<"ENOENT: no such file or directory">>}
BadPathMessage == <<"The path argument must be of type string">>
ClosedMessage == <<"Connection is closed.">>
TimeoutMessage == <<"LSP init timeout">>
WriteErrorMessage == <<"write EPIPE">>
UnknownToolMessage(name) == <<"Unknown tool: ", name>>

\* What the engine answers to request id: a result, or an error response.
EngineResult(id) == <<"result", id>>
EngineErrorMessage(id) == <<"request failed", id>>

----------------------------------------------------------------------------
\* The diagnostics cache (a Map from uri to diagnostics array).

EmptyCache == [u \in {} |-> <<>>]

\* Mutant of CacheSet: a push is appended to the entry it finds.
CacheSetAppend(cache, uri, diagnostics) ==
  [u \in DOMAIN cache \cup {uri} |->
     IF u # uri THEN cache[u]
     ELSE IF uri \in DOMAIN cache THEN cache[uri] \o diagnostics ELSE diagnostics]

\* this.diagnosticsCache.set(uri, diagnostics)
CacheSet(cache, uri, diagnostics) ==
  [u \in DOMAIN cache \cup {uri} |-> IF u = uri THEN diagnostics ELSE cache[u]]

\* Mutant of CacheGet: the cache is asked for the file path, not the uri.
CacheGetByPath(cache, uri) ==
  IF <<uri[2]>> \in DOMAIN cache THEN cache[<<uri[2]>>] ELSE <<>>

\* this.diagnosticsCache.get(uri) || []
CacheGet(cache, uri) == IF uri \in DOMAIN cache THEN cache[uri] ELSE <<>>

\* ["Error", "Warning", "Information", "Hint"][d.severity - 1] || "Unknown"
SeverityName(severity) ==
  LET names == <<"Error", "Warning", "Information", "Hint">>
  IN  IF severity \in 1..4 THEN names[severity] ELSE "Unknown"

\* Mutant of FormatDiagnostic: the position is left zero-indexed.
FormatDiagnosticZeroIndexed(d) ==
  <<"[", SeverityName(d.severity), "] Line ", d.line, ":", d.character,
    " - ", d.message>>

\* `[${severity}] Line ${line}:${char} - ${d.message}`
FormatDiagnostic(d) ==
  <<"[", SeverityName(d.severity), "] Line ", d.line + 1, ":", d.character + 1,
    " - ", d.message>>

NoDiagnosticsText ==
  <<"No diagnostics found for this file. The code appears to be valid.">>

\* Mutant of DiagnosticsText: no separate answer for an empty array.
DiagnosticsTextNoEmptyCase(diagnostics) ==
  <<"Found ", Len(diagnostics), " diagnostic(s):",
    [k \in 1..Len(diagnostics) |-> FormatDiagnostic(diagnostics[k])],
    "Raw diagnostics:", JSONText(diagnostics)>>

\* the text of the lpc_diagnostics result
DiagnosticsText(diagnostics) ==
  IF Len(diagnostics) = 0
  THEN NoDiagnosticsText
  ELSE <<"Found ", Len(diagnostics), " diagnostic(s):",
         [k \in 1..Len(diagnostics) |-> FormatDiagnostic(diagnostics[k])],
         "Raw diagnostics:", JSONText(diagnostics)>>

----------------------------------------------------------------------------
\* Discovery of the language server among the installed extensions.  A name
\* is the sequence of its UTF-16 code units, which is what sort() compares.

\* the versions of the extension that may be installed
Versions ==
  {<<0, 9, 9>>, <<1, 1, 9>>, <<1, 1, 10>>, <<1, 1, 42>>, <<1, 2, 0>>,
   <<1, 10, 0>>, <<2, 0, 0>>}

\* "jlchmura.lpc-"
NamePrefix == <<106, 108, 99, 104, 109, 117, 114, 97, 46, 108, 112, 99, 45>>
Dot == <<46>>
NoName == <<>>

\* the decimal digits of a number below 100, as code units
Digits(n) == IF n < 10 THEN <<48 + n>> ELSE <<48 + (n \div 10), 48 + (n % 10)>>

\* `jlchmura.lpc-${major}.${minor}.${patch}`
ExtensionName(v) ==
  NamePrefix \o Digits(v[1]) \o Dot \o Digits(v[2]) \o Dot \o Digits(v[3])

RECURSIVE Precedes(_, _)
\* the order of Array.prototype.sort() without a comparator: a < b by code
\* units, a proper prefix first
Precedes(a, b) ==
  IF a = <<>> THEN b # <<>>
  ELSE IF b = <<>> THEN FALSE
  ELSE IF Head(a) # Head(b) THEN Head(a) < Head(b)
  ELSE Precedes(Tail(a), Tail(b))

\* directories.map(dir => dir.name).sort().reverse()[0]
Latest(names) ==
  CHOOSE n \in names : \A m \in names : m = n \/ Precedes(m, n)

----------------------------------------------------------------------------
\* The transform stream between the engine's stdout and the message reader.
\* A chunk is a sequence of tokens: the line feed, white space, the frame
\* header, the open brace, and any other text.

NL == "\n"
Header == "Content-Length:"
Brace == "{"
OtherText == "log"
Whitespace == {" ", "\r"}
Alphabet == {NL, Header, Brace, OtherText} \cup Whitespace

\* what the engine may write: data of up to MaxChunk tokens
Data == UNION {[1..n -> Alphabet] : n \in 0..MaxChunk}

\* the data arrives in one chunk, or cut in two at any place
Streams ==
  UNION {{<<d>>} \cup {<<SubSeq(d, 1, k), SubSeq(d, k + 1, Len(d))>> :
                         k \in 1..(Len(d) - 1)} : d \in Data \ {<<>>}}

RECURSIVE Split(_)
\* data.split("\n")
Split(data) ==
  IF \A k \in 1..Len(data) : data[k] # NL
  THEN <<data>>
  ELSE LET k == CHOOSE j \in 1..Len(data) :
                  data[j] = NL /\ \A h \in 1..(j - 1) : data[h] # NL
       IN  <<SubSeq(data, 1, k - 1)>> \o Split(SubSeq(data, k + 1, Len(data)))

RECURSIVE TrimStart(_)
TrimStart(line) ==
  IF line # <<>> /\ Head(line) \in Whitespace THEN TrimStart(Tail(line)) ELSE line

RECURSIVE TrimEnd(_)
TrimEnd(line) ==
  IF line # <<>> /\ line[Len(line)] \in Whitespace
  THEN TrimEnd(SubSeq(line, 1, Len(line) - 1))
  ELSE line

\* line.trim()
Trim(line) == TrimEnd(TrimStart(line))

\* s.startsWith(prefix), for a prefix of one token
StartsWith(s, prefix) == s # <<>> /\ Head(s) = prefix

\* Mutant of Keep: the line itself is tested, not the trimmed line.
KeepUntrimmed(line) ==
  StartsWith(line, Header) \/ StartsWith(line, Brace) \/ line = <<>>

\* the predicate of lines.filter(...)
Keep(line) ==
  LET trimmed == Trim(line)
  IN  StartsWith(trimmed, Header) \/ StartsWith(trimmed, Brace) \/ trimmed = <<>>

RECURSIVE Join(_)
\* lines.join("\n")
Join(lines) ==
  IF lines = <<>> THEN <<>>
  ELSE IF Len(lines) = 1 THEN lines[1]
  ELSE lines[1] \o <<NL>> \o Join(Tail(lines))

\* const filtered = lines.filter(...).join("\n")
Filtered(data) == Join(SelectSeq(Split(data), Keep))

----------------------------------------------------------------------------
\* The session, as the spec names its states.

Writable == lspProcess = "running" /\ lspConnection = "open"

SessionState ==
  CASE startPc \in {"idle", "discover"} -> "uninitialized"
    [] startPc = "await_init" -> "initializing"
    [] startPc = "failed" -> "failed"
    [] startPc = "done" -> IF Writable THEN "ready" ELSE "closed"

----------------------------------------------------------------------------
\* An invocation: its arguments, its position, the handler's locals
\* (fileContent, the id of its request), its result, and for the record
\*   at       the session state when it was invoked
\*   failure  the message of the error it met, if any
\*   fresh    (lpc_diagnostics) a publishDiagnostics for its uri arrived
\*            after its didOpen and before its read of the cache
\*   waited   its grace period has elapsed
\*   seen     the latest notification for its uri when it read the cache
IdleInv ==
  [tool |-> "", file |-> "", pc |-> "idle", fileContent |-> NoText, reqId |-> -1,
   at |-> "", failure |-> <<>>, fresh |-> FALSE, waited |-> FALSE,
   seen |-> [has |-> FALSE, diagnostics |-> <<>>], result |-> NoResult]

\* the server object after its constructor
Constructed ==
  /\ runPc = "init"
  /\ startPc = "idle"
  /\ initRequest = "unsent"
  /\ initTimer = "unarmed"
  /\ lspProcess = "null"
  /\ lspConnection = "null"
  /\ nextId = 0
  /\ pending = {}
  /\ wire = <<>>
  /\ diagnosticsCache = EmptyCache
  /\ lastPush = EmptyCache
  /\ inv = [i \in Invs |-> IdleInv]
  /\ dropped = {}
  /\ latestExtension = NoName
  /\ handlers = {}

Init ==
  /\ Constructed
  /\ directories \in {{}, {ExtensionName(<<1, 1, 42>>)}}
  /\ stdout = <<>>
  /\ piped = <<>>

----------------------------------------------------------------------------
\* run() and startLSP().

\* run(): await this.startLSP()
Run ==
  /\ runPc = "init"
  /\ runPc' = "startLSP"
  /\ startPc' = "discover"
  /\ UNCHANGED <<stdout, piped, dropped, directories,
                 latestExtension, handlers>>
  /\ UNCHANGED <<initRequest, initTimer, lspProcess, lspConnection, nextId,
                 pending, wire, diagnosticsCache, lastPush, inv>>

\* Mutant of Discover: the channel listens and initialize is sent while the
\* publishDiagnostics handler is not yet registered.
DiscoverListensFirst ==
  /\ startPc = "discover"
  /\ IF directories # {}
     THEN /\ latestExtension' = Latest(directories)
          /\ lspProcess' = "running"
          /\ lspConnection' = "open"
          /\ handlers' = {}
          /\ wire' = Append(wire, InitializeMsg(nextId))
          /\ nextId' = nextId + 1
          /\ initRequest' = "pending"
          /\ initTimer' = "armed"
          /\ startPc' = "await_init"
     ELSE /\ startPc' = "failed"
          /\ UNCHANGED <<lspProcess, lspConnection, wire, nextId,
                         initRequest, initTimer, latestExtension, handlers>>
  /\ UNCHANGED <<stdout, piped, dropped, directories>>
  /\ UNCHANGED <<runPc, pending, diagnosticsCache, lastPush, inv>>

\* startLSP up to its await of the initialize race: the extension lookup,
\* spawn, the connection with its handlers, listen(), sendRequest("initialize")
\* and the 5 s timer.
Discover ==
  /\ startPc = "discover"
  /\ IF directories # {}
     THEN /\ latestExtension' = Latest(directories)
          /\ lspProcess' = "running"
          /\ lspConnection' = "open"
          /\ handlers' = {PublishDiagnosticsMethod}
          /\ wire' = Append(wire, InitializeMsg(nextId))
          /\ nextId' = nextId + 1
          /\ initRequest' = "pending"
          /\ initTimer' = "armed"
          /\ startPc' = "await_init"
     ELSE /\ startPc' = "failed"
          /\ UNCHANGED <<lspProcess, lspConnection, wire, nextId,
                         initRequest, initTimer, latestExtension, handlers>>
  /\ UNCHANGED <<stdout, piped, dropped, directories>>
  /\ UNCHANGED <<runPc, pending, diagnosticsCache, lastPush, inv>>

\* Mutant of InitializeResult: the response is acted on whenever it comes,
\* whatever the race has decided.
InitializeResultLate ==
  /\ initRequest = "pending"
  /\ Writable
  /\ initRequest' = "fulfilled"
  /\ wire' = Append(wire, InitializedMsg)
  /\ startPc' = "done"
  /\ UNCHANGED <<runPc, initTimer, lspProcess, lspConnection, nextId, pending,
                 diagnosticsCache, lastPush, inv, stdout, piped, dropped, directories,
                 latestExtension, handlers>>

\* The engine answers initialize with a result.  While startLSP still awaits
\* the race it goes on to send `initialized`.
InitializeResult ==
  /\ initRequest = "pending"
  /\ Writable
  /\ initRequest' = "fulfilled"
  /\ IF startPc = "await_init"
     THEN /\ wire' = Append(wire, InitializedMsg)
          /\ startPc' = "done"
     ELSE UNCHANGED <<wire, startPc>>
  /\ UNCHANGED <<stdout, piped, dropped, directories,
                 latestExtension, handlers>>
  /\ UNCHANGED <<runPc, initTimer, lspProcess, lspConnection, nextId, pending,
                 diagnosticsCache, lastPush, inv>>

\* The engine answers initialize with an error response.
InitializeError ==
  /\ initRequest = "pending"
  /\ Writable
  /\ initRequest' = "rejected"
  /\ startPc' = IF startPc = "await_init" THEN "failed" ELSE startPc
  /\ UNCHANGED <<stdout, piped, dropped, directories,
                 latestExtension, handlers>>
  /\ UNCHANGED <<runPc, initTimer, lspProcess, lspConnection, nextId, pending,
                 wire, diagnosticsCache, lastPush, inv>>

\* Mutant of InitTimeout: the timer fires and rejects nothing.
InitTimeoutIgnored ==
  /\ initTimer = "armed"
  /\ initTimer' = "fired"
  /\ UNCHANGED <<runPc, startPc, initRequest, lspProcess, lspConnection,
                 nextId, pending, wire, diagnosticsCache, lastPush, inv,
                 stdout, piped, dropped, directories,
                 latestExtension, handlers>>

\* Mutant of InitTimeout: the timer also rejects the requests that wait.
InitTimeoutRejectsAll ==
  /\ initTimer = "armed"
  /\ initTimer' = "fired"
  /\ pending' = {}
  /\ inv' = [i \in Invs |->
               IF inv[i].pc = "awaiting"
               THEN [inv[i] EXCEPT !.pc = "done", !.failure = TimeoutMessage,
                                   !.result = ErrorResult(TimeoutMessage)]
               ELSE inv[i]]
  /\ startPc' = IF startPc = "await_init" THEN "failed" ELSE startPc
  /\ UNCHANGED <<stdout, piped, dropped, directories,
                 latestExtension, handlers>>
  /\ UNCHANGED <<runPc, initRequest, lspProcess, lspConnection, nextId,
                 wire, diagnosticsCache, lastPush>>

\* Mutant of InitTimeout: the timer fails startLSP whenever it fires.
InitTimeoutAlways ==
  /\ initTimer = "armed"
  /\ initTimer' = "fired"
  /\ startPc' = "failed"
  /\ UNCHANGED <<stdout, piped, dropped, directories,
                 latestExtension, handlers>>
  /\ UNCHANGED <<runPc, initRequest, lspProcess, lspConnection, nextId,
                 pending, wire, diagnosticsCache, lastPush, inv>>

\* setTimeout(() => reject(new Error("LSP init timeout")), 5000) fires.
InitTimeout ==
  /\ initTimer = "armed"
  /\ initTimer' = "fired"
  /\ startPc' = IF startPc = "await_init" THEN "failed" ELSE startPc
  /\ UNCHANGED <<stdout, piped, dropped, directories,
                 latestExtension, handlers>>
  /\ UNCHANGED <<runPc, initRequest, lspProcess, lspConnection, nextId,
                 pending, wire, diagnosticsCache, lastPush, inv>>

\* Mutant of Connect: run() connects the transport after a failed startLSP too.
ConnectAnyway ==
  /\ runPc = "startLSP"
  /\ startPc \in {"done", "failed"}
  /\ runPc' = "connected"
  /\ UNCHANGED <<startPc, initRequest, initTimer, lspProcess, lspConnection,
                 nextId, pending, wire, diagnosticsCache, lastPush, inv,
                 stdout, piped, dropped, directories,
                 latestExtension, handlers>>

\* Mutant of Connect: run() does not await startLSP before it connects.
ConnectBeforeHandshake ==
  /\ runPc = "startLSP"
  /\ startPc \in {"await_init", "done"}
  /\ runPc' = "connected"
  /\ UNCHANGED <<startPc, initRequest, initTimer, lspProcess, lspConnection,
                 nextId, pending, wire, diagnosticsCache, lastPush, inv,
                 stdout, piped, dropped, directories,
                 latestExtension, handlers>>

\* run(): startLSP resolved; await this.server.connect(transport)
Connect ==
  /\ runPc = "startLSP"
  /\ startPc = "done"
  /\ runPc' = "connected"
  /\ UNCHANGED <<stdout, piped, dropped, directories,
                 latestExtension, handlers>>
  /\ UNCHANGED <<startPc, initRequest, initTimer, lspProcess, lspConnection,
                 nextId, pending, wire, diagnosticsCache, lastPush, inv>>

\* Mutant of RunRejected: run() calls startLSP again after a failure.
RunRetry ==
  /\ runPc = "startLSP"
  /\ startPc = "failed"
  /\ startPc' = "discover"
  /\ UNCHANGED <<runPc, initRequest, initTimer, lspProcess, lspConnection,
                 nextId, pending, wire, diagnosticsCache, lastPush, inv,
                 stdout, piped, dropped, directories,
                 latestExtension, handlers>>

\* run(): startLSP threw; server.run().catch(console.error)
RunRejected ==
  /\ runPc = "startLSP"
  /\ startPc = "failed"
  /\ runPc' = "rejected"
  /\ UNCHANGED <<stdout, piped, dropped, directories,
                 latestExtension, handlers>>
  /\ UNCHANGED <<startPc, initRequest, initTimer, lspProcess, lspConnection,
                 nextId, pending, wire, diagnosticsCache, lastPush, inv>>

----------------------------------------------------------------------------
\* The engine process and the channel.

\* this.lspProcess.on("exit", ...): logged, nothing else
EngineExit ==
  /\ lspProcess = "running"
  /\ lspProcess' = "exited"
  /\ UNCHANGED <<stdout, piped, dropped, directories,
                 latestExtension, handlers>>
  /\ UNCHANGED <<runPc, startPc, initRequest, initTimer, lspConnection,
                 nextId, pending, wire, diagnosticsCache, lastPush, inv>>

\* The engine's output stream has ended with the process.
\* this.lspConnection.onClose(...): logged, nothing else
ConnectionClose ==
  /\ lspConnection = "open"
  /\ lspProcess = "exited"
  /\ lspConnection' = "closed"
  /\ UNCHANGED <<stdout, piped, dropped, directories,
                 latestExtension, handlers>>
  /\ UNCHANGED <<runPc, startPc, initRequest, initTimer, lspProcess, nextId,
                 pending, wire, diagnosticsCache, lastPush, inv>>

\* The engine sends textDocument/publishDiagnostics: the connection hands it
\* to the handler registered for the method (params => ... cache.set), and
\* ignores a notification whose method has no handler.
PublishDiagnostics(uri, diagnostics) ==
  /\ Writable
  /\ lastPush' = [u \in DOMAIN lastPush \cup {uri} |->
                    IF u = uri THEN diagnostics ELSE lastPush[u]]
  /\ IF PublishDiagnosticsMethod \in handlers
     THEN /\ diagnosticsCache' = CacheSet(diagnosticsCache, uri, diagnostics)
          /\ inv' = [i \in Invs |->
                       IF /\ inv[i].tool = "lpc_diagnostics"
                          /\ inv[i].pc \in {"opened", "grace"}
                          /\ URIOf(inv[i].file) = uri
                       THEN [inv[i] EXCEPT !.fresh = TRUE]
                       ELSE inv[i]]
     ELSE UNCHANGED <<diagnosticsCache, inv>>
  /\ UNCHANGED <<stdout, piped, dropped, directories,
                 latestExtension, handlers>>
  /\ UNCHANGED <<runPc, startPc, initRequest, initTimer, lspProcess,
                 lspConnection, nextId, pending, wire>>

----------------------------------------------------------------------------
\* One tool invocation.

\* return from the try block
Return(i, text) == [inv EXCEPT ![i].pc = "done", ![i].result = SuccessResult(text)]

\* an error is thrown inside the try block and caught
Catch(i, message) ==
  [inv EXCEPT ![i].pc = "done", ![i].failure = message,
              ![i].result = ErrorResult(message)]

\* an error is thrown outside the try block
Throw(r, message) ==
  [r EXCEPT !.pc = "done", !.failure = message, !.result = Thrown(message)]

\* the message of a send that fails
SendFailure == IF lspConnection = "closed" THEN ClosedMessage ELSE WriteErrorMessage

\* Slots are used in order.
Free(i) == inv[i].pc = "idle" /\ (IF i = 1 THEN TRUE ELSE inv[i - 1].pc # "idle")

\* The guard of a handler: if(!this.lspConnection) throw ...
NotInitialized == lspConnection = "null"

\* A registered tool callback is entered: the guard, the uri, then the await
\* of the file read.
ToolCallback(i, tool, file) ==
  /\ Free(i)
  /\ LET r == [inv[i] EXCEPT !.tool = tool, !.file = file, !.at = SessionState]
     IN  inv' = [inv EXCEPT ![i] =
                   IF NotInitialized
                   THEN Throw(r, NotInitializedMessage)
                   ELSE [r EXCEPT !.pc = "reading"]]
  /\ UNCHANGED <<stdout, piped, dropped, directories,
                 latestExtension, handlers>>
  /\ UNCHANGED <<runPc, startPc, initRequest, initTimer, lspProcess,
                 lspConnection, nextId, pending, wire, diagnosticsCache,
                 lastPush>>

\* Mutant of ReadFile: the file is read but no didOpen is sent.
ReadFileNoDidOpen(i) ==
  /\ inv[i].pc = "reading"
  /\ \/ /\ inv[i].file # NoFile
        /\ inv' = [inv EXCEPT ![i].pc = "opened", ![i].fileContent = FileText(i)]
     \/ \E error \in ReadErrors :
          inv' = Catch(i, IF inv[i].file = NoFile THEN BadPathMessage ELSE error)
  /\ UNCHANGED <<stdout, piped, dropped, directories,
                 latestExtension, handlers>>
  /\ UNCHANGED <<runPc, startPc, initRequest, initTimer, lspProcess,
                 lspConnection, nextId, pending, wire, diagnosticsCache,
                 lastPush>>

\* Mutant of ReadFile: a document is opened only while no other invocation
\* on the same file is between its didOpen and its response.
ReadFileExclusive(i) ==
  /\ inv[i].pc = "reading"
  /\ \A j \in Invs \ {i} :
       ~(inv[j].pc \in {"opened", "awaiting"} /\ inv[j].file = inv[i].file)
  /\ \/ LET fileContent == FileText(i) IN
          /\ inv[i].file # NoFile
          /\ IF Writable
             THEN /\ wire' = Append(wire, DidOpenMsg(URIOf(inv[i].file), fileContent, i))
                  /\ inv' = [inv EXCEPT ![i].pc = "opened",
                                         ![i].fileContent = fileContent]
             ELSE /\ inv' = Catch(i, SendFailure)
                  /\ wire' = wire
     \/ \E error \in ReadErrors :
          /\ inv' = Catch(i, IF inv[i].file = NoFile THEN BadPathMessage ELSE error)
          /\ wire' = wire
  /\ UNCHANGED <<stdout, piped, dropped, directories,
                 latestExtension, handlers>>
  /\ UNCHANGED <<runPc, startPc, initRequest, initTimer, lspProcess,
                 lspConnection, nextId, pending, diagnosticsCache, lastPush>>

\* Mutant of ReadFile: a read error is not caught and ends the server.
ReadFileFatal(i) ==
  /\ inv[i].pc = "reading"
  /\ \/ LET fileContent == FileText(i) IN
          /\ inv[i].file # NoFile
          /\ IF Writable
             THEN /\ wire' = Append(wire, DidOpenMsg(URIOf(inv[i].file), fileContent, i))
                  /\ inv' = [inv EXCEPT ![i].pc = "opened",
                                         ![i].fileContent = fileContent]
                  /\ runPc' = runPc
             ELSE /\ inv' = Catch(i, SendFailure)
                  /\ wire' = wire
                  /\ runPc' = runPc
     \/ \E error \in ReadErrors :
          /\ inv' = Catch(i, IF inv[i].file = NoFile THEN BadPathMessage ELSE error)
          /\ wire' = wire
          /\ runPc' = "rejected"
  /\ UNCHANGED <<stdout, piped, dropped, directories,
                 latestExtension, handlers>>
  /\ UNCHANGED <<startPc, initRequest, initTimer, lspProcess,
                 lspConnection, nextId, pending, diagnosticsCache, lastPush>>

\* Mutant of ReadFile: the didOpen is sent before the read has succeeded.
ReadFileOpenFirst(i) ==
  /\ inv[i].pc = "reading"
  /\ \/ LET fileContent == FileText(i) IN
          /\ inv[i].file # NoFile
          /\ IF Writable
             THEN /\ wire' = Append(wire, DidOpenMsg(URIOf(inv[i].file), fileContent, i))
                  /\ inv' = [inv EXCEPT ![i].pc = "opened",
                                         ![i].fileContent = fileContent]
             ELSE /\ inv' = Catch(i, SendFailure)
                  /\ wire' = wire
     \/ \E error \in ReadErrors :
          /\ inv' = Catch(i, IF inv[i].file = NoFile THEN BadPathMessage ELSE error)
          /\ wire' = IF Writable
                     THEN Append(wire, DidOpenMsg(URIOf(inv[i].file), NoText, i))
                     ELSE wire
  /\ UNCHANGED <<stdout, piped, dropped, directories,
                 latestExtension, handlers>>
  /\ UNCHANGED <<runPc, startPc, initRequest, initTimer, lspProcess,
                 lspConnection, nextId, pending, diagnosticsCache, lastPush>>

\* fs.readFile settles; on success textDocument/didOpen is sent.
ReadFile(i) ==
  /\ inv[i].pc = "reading"
  /\ \/ LET fileContent == FileText(i) IN
          /\ inv[i].file # NoFile
          /\ IF Writable
             THEN /\ wire' = Append(wire, DidOpenMsg(URIOf(inv[i].file), fileContent, i))
                  /\ inv' = [inv EXCEPT ![i].pc = "opened",
                                         ![i].fileContent = fileContent]
             ELSE /\ inv' = Catch(i, SendFailure)
                  /\ wire' = wire
     \/ \E error \in ReadErrors :
          /\ inv' = Catch(i, IF inv[i].file = NoFile THEN BadPathMessage ELSE error)
          /\ wire' = wire
  /\ UNCHANGED <<stdout, piped, dropped, directories,
                 latestExtension, handlers>>
  /\ UNCHANGED <<runPc, startPc, initRequest, initTimer, lspProcess,
                 lspConnection, nextId, pending, diagnosticsCache, lastPush>>

\* What lpc_diagnostics reads and returns once its timer has fired.
ReadCache(i) ==
  LET uri == URIOf(inv[i].file)
      diagnostics == CacheGet(diagnosticsCache, uri)
  IN  [Return(i, DiagnosticsText(diagnostics)) EXCEPT
         ![i].seen = [has |-> uri \in DOMAIN lastPush,
                      diagnostics |-> IF uri \in DOMAIN lastPush
                                      THEN lastPush[uri] ELSE <<>>]]

\* Mutant of AfterOpen: lpc_diagnostics reads the cache without waiting.
AfterOpenNoWait(i) ==
  /\ inv[i].pc = "opened"
  /\ IF inv[i].tool \in PositionTools
     THEN IF Writable
          THEN /\ wire' = Append(wire, PositionRequest(inv[i].tool, URIOf(inv[i].file), nextId, i))
               /\ pending' = pending \cup {nextId}
               /\ nextId' = nextId + 1
               /\ inv' = [inv EXCEPT ![i].pc = "awaiting", ![i].reqId = nextId]
          ELSE /\ inv' = Catch(i, SendFailure)
               /\ UNCHANGED <<wire, pending, nextId>>
     ELSE /\ inv' = IF inv[i].tool = "lpc_diagnostics"
                    THEN ReadCache(i)
                    ELSE Catch(i, UnknownToolMessage(inv[i].tool))
          /\ UNCHANGED <<wire, pending, nextId>>
  /\ UNCHANGED <<stdout, piped, dropped, directories,
                 latestExtension, handlers>>
  /\ UNCHANGED <<runPc, startPc, initRequest, initTimer, lspProcess,
                 lspConnection, diagnosticsCache, lastPush>>

\* Mutant of AfterOpen: the connection does not advance its request id.
AfterOpenSameId(i) ==
  /\ inv[i].pc = "opened"
  /\ IF inv[i].tool \in PositionTools
     THEN IF Writable
          THEN /\ wire' = Append(wire, PositionRequest(inv[i].tool, URIOf(inv[i].file), nextId, i))
               /\ pending' = pending \cup {nextId}
               /\ inv' = [inv EXCEPT ![i].pc = "awaiting", ![i].reqId = nextId]
          ELSE /\ inv' = Catch(i, SendFailure)
               /\ UNCHANGED <<wire, pending>>
     ELSE /\ inv' = IF inv[i].tool = "lpc_diagnostics"
                    THEN [inv EXCEPT ![i].pc = "grace"]
                    ELSE Catch(i, UnknownToolMessage(inv[i].tool))
          /\ UNCHANGED <<wire, pending>>
  /\ UNCHANGED <<runPc, startPc, initRequest, initTimer, lspProcess,
                 lspConnection, nextId, diagnosticsCache, lastPush, stdout,
                 piped, dropped, directories,
                 latestExtension, handlers>>

\* The didOpen send has settled: the position request is sent, or the grace
\* period of lpc_diagnostics starts, or the dispatcher finds no such tool.
AfterOpen(i) ==
  /\ inv[i].pc = "opened"
  /\ IF inv[i].tool \in PositionTools
     THEN IF Writable
          THEN /\ wire' = Append(wire, PositionRequest(inv[i].tool, URIOf(inv[i].file), nextId, i))
               /\ pending' = pending \cup {nextId}
               /\ nextId' = nextId + 1
               /\ inv' = [inv EXCEPT ![i].pc = "awaiting", ![i].reqId = nextId]
          ELSE /\ inv' = Catch(i, SendFailure)
               /\ UNCHANGED <<wire, pending, nextId>>
     ELSE /\ inv' = IF inv[i].tool = "lpc_diagnostics"
                    THEN [inv EXCEPT ![i].pc = "grace"]
                    ELSE Catch(i, UnknownToolMessage(inv[i].tool))
          /\ UNCHANGED <<wire, pending, nextId>>
  /\ UNCHANGED <<stdout, piped, dropped, directories,
                 latestExtension, handlers>>
  /\ UNCHANGED <<runPc, startPc, initRequest, initTimer, lspProcess,
                 lspConnection, diagnosticsCache, lastPush>>

Awaiting(id) == {i \in Invs : inv[i].pc = "awaiting" /\ inv[i].reqId = id}

\* Mutant of Respond: a response settles the oldest outstanding request,
\* whatever its id.
RespondOldest(id) ==
  /\ id \in pending
  /\ Writable
  /\ LET waiting == {i \in Invs : inv[i].pc = "awaiting"}
         oldest == CHOOSE i \in waiting :
                     \A j \in waiting : inv[i].reqId <= inv[j].reqId
     IN  /\ pending' = pending \ {inv[oldest].reqId}
         /\ inv' = Return(oldest, JSONText(EngineResult(id)))
  /\ UNCHANGED <<runPc, startPc, initRequest, initTimer, lspProcess,
                 lspConnection, nextId, wire, diagnosticsCache, lastPush,
                 stdout, piped, dropped, directories,
                 latestExtension, handlers>>

\* The engine answers a position request with a result.
Respond(id) ==
  /\ id \in pending
  /\ Writable
  /\ pending' = pending \ {id}
  /\ \E i \in Awaiting(id) : inv' = Return(i, JSONText(EngineResult(id)))
  /\ UNCHANGED <<stdout, piped, dropped, directories,
                 latestExtension, handlers>>
  /\ UNCHANGED <<runPc, startPc, initRequest, initTimer, lspProcess,
                 lspConnection, nextId, wire, diagnosticsCache, lastPush>>

\* The engine answers a position request with an error response.
RespondError(id) ==
  /\ id \in pending
  /\ Writable
  /\ pending' = pending \ {id}
  /\ \E i \in Awaiting(id) : inv' = Catch(i, EngineErrorMessage(id))
  /\ UNCHANGED <<stdout, piped, dropped, directories,
                 latestExtension, handlers>>
  /\ UNCHANGED <<runPc, startPc, initRequest, initTimer, lspProcess,
                 lspConnection, nextId, wire, diagnosticsCache, lastPush>>

\* ids of the requests that await a response
OutstandingIds ==
  pending \cup {wire[k].id : k \in {h \in 1..Len(wire) :
                   wire[h].method = "initialize" /\ initRequest = "pending"}}

\* The engine sends a response whose id is that of no outstanding request:
\* the connection finds no promise for it and drops it.
UnknownResponse(id) ==
  /\ Writable
  /\ id \notin OutstandingIds
  /\ id \notin dropped
  /\ Cardinality(dropped) < MaxDropped
  /\ dropped' = dropped \cup {id}
  /\ UNCHANGED <<runPc, startPc, initRequest, initTimer, lspProcess,
                 lspConnection, nextId, pending, wire, diagnosticsCache,
                 lastPush, inv, stdout, piped, directories,
                 latestExtension, handlers>>

\* Mutant of GraceElapsed: the array that was read is stored back, also the
\* default for a missing entry.
GraceElapsedStoresDefault(i) ==
  /\ inv[i].pc = "grace"
  /\ inv' = [ReadCache(i) EXCEPT ![i].waited = TRUE]
  /\ diagnosticsCache' =
       CacheSet(diagnosticsCache, URIOf(inv[i].file),
                CacheGet(diagnosticsCache, URIOf(inv[i].file)))
  /\ UNCHANGED <<stdout, piped, dropped, directories,
                 latestExtension, handlers>>
  /\ UNCHANGED <<runPc, startPc, initRequest, initTimer, lspProcess,
                 lspConnection, nextId, pending, wire, lastPush>>

\* setTimeout(resolve, 500) fires: the cache is read and the result built.
GraceElapsed(i) ==
  /\ inv[i].pc = "grace"
  /\ inv' = [ReadCache(i) EXCEPT ![i].waited = TRUE]
  /\ UNCHANGED <<stdout, piped, dropped, directories,
                 latestExtension, handlers>>
  /\ UNCHANGED <<runPc, startPc, initRequest, initTimer, lspProcess,
                 lspConnection, nextId, pending, wire, diagnosticsCache,
                 lastPush>>

\* The call-tool dispatcher of src/src/index.js is entered: the guard, then
\* `file://${args.file}` outside the try block, then the await of the file
\* read.  The steps after it are those of the tool callbacks, with the switch
\* on the tool name after the didOpen.
CallToolRequestHandler(i, name, args) ==
  /\ Free(i)
  /\ LET r == [inv[i] EXCEPT !.tool = name, !.file = args, !.at = SessionState]
     IN  inv' = [inv EXCEPT ![i] =
                   IF NotInitialized
                   THEN Throw(r, NotInitializedMessage)
                   ELSE IF args = NoArgs
                        THEN Throw(r, NoArgsMessage)
                        ELSE [r EXCEPT !.pc = "reading"]]
  /\ UNCHANGED <<stdout, piped, dropped, directories,
                 latestExtension, handlers>>
  /\ UNCHANGED <<runPc, startPc, initRequest, initTimer, lspProcess,
                 lspConnection, nextId, pending, wire, diagnosticsCache,
                 lastPush>>

----------------------------------------------------------------------------
\* The tool-protocol transport, connected by run(), delivers an invocation
\* to its callback.
CallTool ==
  /\ runPc = "connected"
  /\ \E i \in Invs, tool \in Tools, file \in Files : ToolCallback(i, tool, file)

\* Before run() has connected the transport, a registered callback is called
\* on the server object itself (setupTools has registered it in the
\* constructor).
DirectCall ==
  /\ runPc # "connected"
  /\ \E tool \in Tools, file \in Files : ToolCallback(1, tool, file)

\* The transport delivers a call-tool request to the dispatcher.
CallToolRequest ==
  /\ runPc = "connected"
  /\ \E i \in Invs, name \in ToolNames, args \in ArgShapes :
       CallToolRequestHandler(i, name, args)

Engine ==
  \/ InitializeResult
  \/ InitializeError
  \/ EngineExit
  \/ ConnectionClose
  \/ \E uri \in Uris, diagnostics \in DiagSeqs : PublishDiagnostics(uri, diagnostics)
  \/ \E id \in pending : Respond(id)
  \/ \E id \in pending : RespondError(id)

Steps ==
  \/ Run
  \/ Discover
  \/ InitTimeout
  \/ Connect
  \/ RunRejected
  \/ \E i \in Invs : ReadFile(i)
  \/ \E i \in Invs : AfterOpen(i)
  \/ \E i \in Invs : GraceElapsed(i)

Next == Steps \/ Engine \/ CallTool

Spec == Init /\ [][Next]_vars

\* The server with one callback called before the transport is connected.
NextDirect == Next \/ DirectCall
SpecDirect == Init /\ [][NextDirect]_vars

\* The server of src/src/index.js.
NextDispatcher == Steps \/ Engine \/ CallToolRequest
SpecDispatcher == Init /\ [][NextDispatcher]_vars

\* The server with an engine that also sends responses nobody awaits.
NextChannel == Next \/ \E id \in 0..nextId : UnknownResponse(id)
SpecChannel == Init /\ [][NextChannel]_vars

----------------------------------------------------------------------------
\* Scheduling.  The 5 s timer of the initialize race fires once armed.
SpecTimer == Spec /\ WF_vars(InitTimeout)

\* The event loop runs every continuation that is ready and every timer that
\* is due, and delivers the end of the engine's output once it has exited.
\* The engine itself owes nothing.
FairSteps ==
  /\ WF_vars(Run) /\ WF_vars(Discover) /\ WF_vars(InitTimeout)
  /\ WF_vars(Connect) /\ WF_vars(RunRejected) /\ WF_vars(ConnectionClose)
  /\ \A i \in Invs :
       WF_vars(ReadFile(i)) /\ WF_vars(AfterOpen(i)) /\ WF_vars(GraceElapsed(i))

SpecFair == Spec /\ FairSteps

----------------------------------------------------------------------------
\* Discovery on its own: run() up to the end of the extension lookup, for
\* every set of installed versions.

InitDiscovery ==
  /\ Constructed
  /\ directories \in {{ExtensionName(v) : v \in vs} : vs \in SUBSET Versions}
  /\ stdout = <<>>
  /\ piped = <<>>

NextDiscovery == Run \/ Discover

SpecDiscovery == InitDiscovery /\ [][NextDiscovery]_vars

----------------------------------------------------------------------------
\* The transform stream on its own.

\* transform(chunk, encoding, callback): one chunk of the engine's stdout
Transform ==
  /\ stdout # <<>>
  /\ LET data == Head(stdout)
         filtered == Filtered(data)
     IN  piped' = Append(piped, [chunk |-> data,
                                 pushed |-> IF filtered # <<>>
                                            THEN <<filtered>> ELSE <<>>])
  /\ stdout' = Tail(stdout)
  /\ UNCHANGED <<runPc, startPc, initRequest, initTimer, lspProcess,
                 lspConnection, nextId, pending, wire, diagnosticsCache,
                 lastPush, inv, dropped, directories,
                 latestExtension, handlers>>

InitFilter ==
  /\ Constructed
  /\ directories = {}
  /\ stdout \in Streams
  /\ piped = <<>>

NextFilter == Transform

SpecFilter == InitFilter /\ [][NextFilter]_vars

----------------------------------------------------------------------------
\* What the claims speak of.

DidOpen == "textDocument/didOpen"
PositionMethods == {PositionMethod(t) : t \in PositionTools}
DiagnosticsUri == URIOf("/m/room.c")
OtherUri == URIOf(OtherFile)
AllDiagnostics == <<D1, D2, D3, D4>>

\* the messages invocation i has written to the engine, in order
Mine(i) == SelectSeq(wire, LAMBDA m : m.by = i)

Returned(i) == inv[i].pc = "done" /\ inv[i].result.kind = "returned"
Succeeded(i) == Returned(i) /\ ~inv[i].result.isError
Failed(i) == Returned(i) /\ inv[i].result.isError
IsDiagnostics(i) == inv[i].tool = "lpc_diagnostics"
IsPosition(i) == inv[i].tool \in PositionTools

\* C1: an invocation made while the session is ready never ends in a thrown
\* fault; it returns a success payload, or an error payload (isError true)
\* whose text is "Error: " followed by the message of the failure it met,
\* whatever the file read and the engine request did.
C1_ReadyCallReturnsPayload ==
  \A i \in Invs :
    inv[i].at = "ready" =>
      /\ inv[i].result.kind # "thrown"
      /\ inv[i].pc = "done" =>
           /\ inv[i].result.kind = "returned"
           /\ inv[i].result.text # <<>>
           /\ IF inv[i].failure = <<>>
              THEN ~inv[i].result.isError
              ELSE /\ inv[i].result.isError
                   /\ inv[i].result.text = <<"Error: ", inv[i].failure>>

\* C1 witness: of two invocations made while ready one has returned a success
\* payload and the other an error payload of a failed send.
C1_Witness ==
  \E i, j \in Invs :
    /\ inv[i].at = "ready" /\ inv[j].at = "ready"
    /\ Succeeded(i)
    /\ Failed(j) /\ inv[j].failure \in {ClosedMessage, WriteErrorMessage}

C3_OpenThenRequest ==
  \A i \in Invs :
    IsPosition(i) =>
      LET mine == Mine(i)
          uri == URIOf(inv[i].file)
      IN  /\ Len(mine) <= 2
          /\ Len(mine) >= 1 =>
               /\ mine[1].method = DidOpen
               /\ mine[1].uri = uri
               /\ mine[1].text = FileText(i)
               /\ inv[i].fileContent = FileText(i)
          /\ Len(mine) = 2 =>
               /\ mine[2].method = PositionMethod(inv[i].tool)
               /\ mine[2].uri = uri
               /\ mine[2].id = inv[i].reqId
          /\ inv[i].pc = "reading" => Len(mine) = 0
          /\ inv[i].pc = "opened" => Len(mine) = 1
          /\ inv[i].pc = "awaiting" => Len(mine) = 2
          /\ Succeeded(i) =>
               /\ Len(mine) = 2
               /\ inv[i].result.text = <<"json", EngineResult(mine[2].id)>>

\* C3 witness: a position invocation has returned the response to its request.
C3_Witness ==
  \E i \in Invs : IsPosition(i) /\ Succeeded(i) /\ Len(Mine(i)) = 2

\* C4: the versions of successive didOpen notifications for one uri are
\* strictly increasing.
C4_VersionsIncrease ==
  \A a, b \in 1..Len(wire) :
    (a < b /\ wire[a].method = DidOpen /\ wire[b].method = DidOpen
           /\ wire[a].uri = wire[b].uri)
      => wire[a].version < wire[b].version

\* C5: the cache holds, for each uri, exactly the diagnostics of the latest
\* publishDiagnostics for that uri, and no entry for a uri never published.
C5_CacheIsLatestPush == diagnosticsCache = lastPush

\* C5 witness: the entry of a uri was replaced by an empty array after a
\* diagnostics invocation had seen it hold four issues, and the entry of the
\* other uri still holds its issues.
C5_Witness ==
  /\ DOMAIN diagnosticsCache = Uris
  /\ diagnosticsCache[DiagnosticsUri] = <<>>
  /\ diagnosticsCache[OtherUri] = AllDiagnostics
  /\ \E i \in Invs :
       IsDiagnostics(i) /\ Succeeded(i) /\ inv[i].seen.diagnostics = AllDiagnostics

\* C6: a get returns exactly the array last set for the uri, and the empty
\* array for a uri never set.
C6_GetReturnsLastSet ==
  \A uri \in Uris :
    CacheGet(diagnosticsCache, uri) =
      IF uri \in DOMAIN lastPush THEN lastPush[uri] ELSE <<>>

\* C6 witness: one uri was set to four issues, the other never, and a
\* diagnostics invocation has read the never-set one.
C6_Witness ==
  /\ DOMAIN lastPush = {OtherUri}
  /\ lastPush[OtherUri] = AllDiagnostics
  /\ \E i \in Invs : IsDiagnostics(i) /\ Succeeded(i) /\ ~inv[i].seen.has

\* C7: lpc_diagnostics builds its result only after its didOpen was written
\* and its grace period has elapsed, from the cache as it is at that moment:
\* the result is the text for the latest notification that had arrived for
\* the uri when the timer fired, and no later notification changes it.
C7_ReadAfterGrace ==
  \A i \in Invs :
    IsDiagnostics(i) =>
      /\ inv[i].pc = "grace" =>
           Len(Mine(i)) = 1 /\ inv[i].result = NoResult /\ ~inv[i].waited
      /\ inv[i].fresh => Len(Mine(i)) = 1
      /\ Succeeded(i) =>
           /\ inv[i].waited
           /\ Len(Mine(i)) = 1
           /\ Mine(i)[1].method = DidOpen
           /\ inv[i].fresh => inv[i].seen.has
           /\ inv[i].result.text = DiagnosticsText(inv[i].seen.diagnostics)

\* C7 witness: a notification that arrived during the grace period is
\* reported, and one that arrived after the read is not.
C7_Witness ==
  \E i \in Invs :
    /\ IsDiagnostics(i) /\ Succeeded(i) /\ inv[i].fresh
    /\ inv[i].seen.diagnostics = AllDiagnostics
    /\ inv[i].result.text = DiagnosticsText(AllDiagnostics)
    /\ DiagnosticsUri \in DOMAIN lastPush
    /\ lastPush[DiagnosticsUri] = <<>>

SeverityOf(code) ==
  CASE code = 1 -> "Error"
    [] code = 2 -> "Warning"
    [] code = 3 -> "Information"
    [] code = 4 -> "Hint"

\* C8: when the cache holds issues for the file, the diagnostics result
\* gives their number, one line per issue with the severity name of its code
\* and its line and character plus one, and the array itself unchanged.
C8_OneIndexedLines ==
  \A i \in Invs :
    (IsDiagnostics(i) /\ Succeeded(i) /\ inv[i].seen.diagnostics # <<>>) =>
      LET ds == inv[i].seen.diagnostics
          t == inv[i].result.text
      IN  /\ Len(t) = 6
          /\ t[2] = Len(ds)
          /\ Len(t[4]) = Len(ds)
          /\ \A k \in 1..Len(ds) :
               /\ t[4][k][2] = SeverityOf(ds[k].severity)
               /\ t[4][k][4] = ds[k].line + 1
               /\ t[4][k][6] = ds[k].character + 1
               /\ t[4][k][8] = ds[k].message
          /\ t[6] = <<"json", ds>>

\* C8 witness: a diagnostics invocation has reported the four cached issues.
C8_Witness ==
  \E i \in Invs :
    IsDiagnostics(i) /\ Succeeded(i) /\ inv[i].seen.diagnostics = AllDiagnostics

\* C9: two diagnostics invocations of which one found no entry for the uri
\* and the other an empty entry return the same payload, the non-error "no
\* diagnostics" one.
C9_AbsentLikeEmpty ==
  \A i, j \in Invs :
    ( /\ IsDiagnostics(i) /\ Succeeded(i) /\ inv[i].seen.diagnostics = <<>>
      /\ IsDiagnostics(j) /\ Succeeded(j) /\ inv[j].seen.diagnostics = <<>> )
    => /\ inv[i].result = inv[j].result
       /\ inv[i].result = SuccessResult(NoDiagnosticsText)

\* C9 witness: one invocation read a missing entry, the other an empty one.
C9_Witness ==
  \E i, j \in Invs :
    /\ IsDiagnostics(i) /\ Succeeded(i) /\ ~inv[i].seen.has
    /\ IsDiagnostics(j) /\ Succeeded(j) /\ inv[j].seen.has
    /\ inv[j].seen.diagnostics = <<>>

\* C10: a call-tool request naming no known tool never throws out of the
\* handler and ends with the error result that names the unknown tool,
\* whatever its arguments are.
C10_UnknownToolIsErrorResult ==
  \A i \in Invs :
    inv[i].tool = UnknownTool =>
      /\ inv[i].result.kind # "thrown"
      /\ inv[i].pc = "done" =>
           /\ inv[i].result.isError
           /\ inv[i].failure = UnknownToolMessage(UnknownTool)

\* What a chunk put on the output: the data pushed, nothing if none was.
PushedData(e) == IF e.pushed = <<>> THEN <<>> ELSE e.pushed[1]

\* A line survives if its first token that is not white space is the frame
\* header or the open brace, or if it has no such token.
Survives(line) ==
  LET marks == SelectSeq(line, LAMBDA t : t \notin Whitespace)
  IN  IF marks = <<>> THEN TRUE ELSE marks[1] \in {Header, Brace}

\* A line whose own first token is the frame header or the open brace, or a
\* blank line.
BeginsWithMark(line) ==
  IF \A k \in 1..Len(line) : line[k] \in Whitespace
  THEN TRUE
  ELSE line[1] \in {Header, Brace}

\* C11 (amended): for every chunk, the output is made of exactly the lines
\* of the chunk that, once leading and trailing white space is trimmed, are
\* empty or begin with the frame header or with an open brace; the lines are
\* unchanged, untrimmed, and in their original order.
C11_TrimmedLinesSurvive ==
  \A k \in 1..Len(piped) :
    PushedData(piped[k]) = Join(SelectSeq(Split(piped[k].chunk), Survives))

\* C11 witness: of three lines the middle one was dropped and the first,
\* which has white space before its open brace, was kept as it was.
C11_Witness ==
  \E k \in 1..Len(piped) :
    /\ piped[k].chunk = <<" ", Brace, NL, OtherText>>
    /\ piped[k].pushed = <<<<" ", Brace>>>>

\* C11 as stated: the surviving lines are the blank ones and those that
\* themselves begin with the frame header or with an open brace.
C11_LinesBeginningWithMarkSurvive ==
  \A k \in 1..Len(piped) :
    PushedData(piped[k]) = Join(SelectSeq(Split(piped[k].chunk), BeginsWithMark))

\* C12: a tool call that awaits its response when the engine process has
\* exited eventually returns.
C12_PendingResolvedOnExit ==
  \A i \in Invs :
    (inv[i].pc = "awaiting" /\ lspProcess = "exited") ~> (inv[i].pc = "done")

Sent(method) == {k \in 1..Len(wire) : wire[k].method = method}

\* positions on the wire of what the tool invocations wrote
SentByTools == {k \in 1..Len(wire) : wire[k].by \in Invs}

\* a step from a failed or closed session
StaysFinal ==
  SessionState \in {"failed", "closed"} =>
    /\ SessionState' = SessionState
    /\ Sent("initialized")' = Sent("initialized")
    /\ Sent("initialize")' = Sent("initialize")
    /\ lspProcess' \in {lspProcess, "exited"}

\* C14: from failed or closed the session never becomes ready: it stays as
\* it is, no `initialized` and no `initialize` is written any more (also not
\* when the initialize response comes after the timeout), and no process is
\* started.
C14_FailedAndClosedAreFinal == [][StaysFinal]_vars

\* C14 witness: the initialize response has come after the timeout; the
\* session is failed and no `initialized` was written.
C14_Witness ==
  /\ startPc = "failed" /\ initTimer = "fired" /\ initRequest = "fulfilled"
  /\ Sent("initialized") = {}

\* C15: the tool transport is connected only once the handshake has
\* succeeded; after a failed startup it is never connected and no tool
\* invocation is handled.
C15_ConnectedOnlyAfterHandshake ==
  /\ runPc = "connected" =>
       startPc = "done" /\ initRequest = "fulfilled" /\ Sent("initialized") # {}
  /\ startPc = "failed" =>
       runPc \in {"startLSP", "rejected"} /\ \A i \in Invs : inv[i].pc = "idle"
  /\ \A i \in Invs : inv[i].pc # "idle" => runPc = "connected"

\* C15 witness: startup has failed on an initialize error and run() has
\* ended without connecting.
C15_Witness ==
  /\ runPc = "rejected" /\ initRequest = "rejected"
  /\ \A i \in Invs : inv[i].pc = "idle"

\* C16: a tool operation invoked on a closed session fails at once with the
\* session-not-initialized error and writes nothing to the engine.
C16_ClosedCallRejected ==
  \A i \in Invs :
    inv[i].at = "closed" =>
      /\ inv[i].pc = "done"
      /\ inv[i].failure = NotInitializedMessage
      /\ \A k \in 1..Len(wire) : wire[k].by # i

\* C17: `initialized` is written at most once, after initialize was written
\* and answered, and before anything a tool invocation writes.
C17_InitializedOnceAndFirst ==
  /\ Cardinality(Sent("initialized")) <= 1
  /\ \A k \in Sent("initialized") :
       /\ initRequest = "fulfilled"
       /\ \E h \in Sent("initialize") : h < k
  /\ \A k \in SentByTools : \E h \in Sent("initialized") : h < k

\* C17 witness: a didOpen and a position request are on the wire, after the
\* handshake.
C17_Witness ==
  /\ Sent("initialized") = {2}
  /\ \E k \in SentByTools : wire[k].method \in PositionMethods

\* a step that starts a process, and a step after startLSP has ended
SpawnsOnce ==
  (lspProcess' = "running" /\ lspProcess # "running") =>
    (lspProcess = "null" /\ startPc = "discover")
NoRetry == startPc \in {"done", "failed"} => startPc' = startPc

\* C18: one initialize request at most is ever written, a process is
\* started only by a server that has none, and startLSP, once it has ended,
\* is not run again.
C18_OneSpawnOneInitialize ==
  /\ [](Cardinality(Sent("initialize")) <= 1)
  /\ [][SpawnsOnce]_vars
  /\ [][NoRetry]_vars

\* C18 witness: the handshake has timed out, the engine has exited, run()
\* has ended, and one initialize was written.
C18_Witness ==
  /\ runPc = "rejected" /\ initTimer = "fired" /\ lspProcess = "exited"
  /\ Cardinality(Sent("initialize")) = 1

\* positions on the wire of the requests, which carry an id
Requests == {k \in 1..Len(wire) : wire[k].id >= 0}

\* a step in which a response is dropped
DropChangesNothing ==
  dropped' # dropped =>
    /\ pending' = pending
    /\ inv' = inv
    /\ initRequest' = initRequest /\ startPc' = startPc

\* C19: no two requests written to the engine carry the same id, so no two
\* outstanding ones do; the outstanding ids are those of the waiting
\* invocations; and a response whose id matches no outstanding request
\* leaves the pending set and every invocation as they were.
C19_IdsUniqueUnknownIgnored ==
  /\ [](\A a, b \in Requests : wire[a].id = wire[b].id => a = b)
  /\ [](\A i, j \in Invs :
          (inv[i].pc = "awaiting" /\ inv[j].pc = "awaiting" /\ i # j)
            => inv[i].reqId # inv[j].reqId)
  /\ [](pending = {inv[i].reqId : i \in {j \in Invs : inv[j].pc = "awaiting"}})
  /\ [][DropChangesNothing]_vars

\* C19 witness: two requests are outstanding and a response with another id
\* was dropped.
C19_Witness ==
  /\ Cardinality(pending) = 2
  /\ dropped # {}
  /\ \A i \in Invs : inv[i].pc = "awaiting"

\* C20: the result of an invocation that has sent its request and returned
\* is the engine's answer to the request this invocation wrote, result or
\* error, not the answer to any other request.
C20_OwnResponse ==
  \A i \in Invs : \A k \in SentByTools :
    (wire[k].by = i /\ wire[k].method \in PositionMethods /\ Returned(i)) =>
      \/ inv[i].result = SuccessResult(<<"json", EngineResult(wire[k].id)>>)
      \/ inv[i].result = ErrorResult(EngineErrorMessage(wire[k].id))

\* C20 witness: of two requests in flight the later one was answered first.
C20_Witness ==
  \E i, j \in Invs :
    /\ IsPosition(i) /\ inv[i].pc = "awaiting"
    /\ IsPosition(j) /\ Succeeded(j)
    /\ inv[i].reqId < inv[j].reqId

\* the versions whose directories are installed
InstalledVersions == {v \in Versions : ExtensionName(v) \in directories}

\* v is a later version than w, component by component as numbers
Newer(v, w) ==
  \/ v[1] > w[1]
  \/ v[1] = w[1] /\ v[2] > w[2]
  \/ v[1] = w[1] /\ v[2] = w[2] /\ v[3] > w[3]

\* C30: once the lookup is over, the directory picked is that of the
\* numerically greatest installed version; with nothing installed startLSP
\* has failed and no process was started.
C30_NewestVersionChosen ==
  startPc \notin {"idle", "discover"} =>
    IF directories = {}
    THEN startPc = "failed" /\ lspProcess = "null" /\ latestExtension = NoName
    ELSE \E v \in InstalledVersions :
           /\ latestExtension = ExtensionName(v)
           /\ \A w \in InstalledVersions : w = v \/ Newer(v, w)

\* a file read of invocation j that goes on to write its didOpen
OpensDocument(j) == ReadFile(j) /\ Len(wire') = Len(wire) + 1

\* C21: nothing excludes two invocations on one document: while an
\* invocation's position request is outstanding, another invocation that has
\* read the same file can write its own didOpen for it.
C21_NoPerDocumentExclusion ==
  \A i \in Invs : \A j \in Invs \ {i} :
    ( /\ inv[i].pc = "awaiting"
      /\ inv[i].reqId \in pending
      /\ inv[j].pc = "reading"
      /\ inv[j].file = inv[i].file
      /\ inv[j].file # NoFile
      /\ Writable ) => ENABLED OpensDocument(j)

\* A's didOpen, A's position request, then B's didOpen with another text for
\* the same document, while A's request is still outstanding.
C21_Witness ==
  \E i \in Invs : \E j \in Invs \ {i} :
    \E a \in 1..Len(wire) : \E r \in 1..Len(wire) : \E b \in 1..Len(wire) :
      /\ a < r /\ r < b
      /\ wire[a].method = DidOpen /\ wire[a].by = i
      /\ wire[r].method \in PositionMethods /\ wire[r].by = i
      /\ wire[r].id = inv[i].reqId
      /\ wire[b].method = DidOpen /\ wire[b].by = j
      /\ wire[b].uri = wire[a].uri
      /\ wire[b].text # wire[a].text
      /\ inv[i].pc = "awaiting"
      /\ inv[i].reqId \in pending

\* a step in which waiting invocation i stops waiting
StopsWaiting(i) == inv[i].pc = "awaiting" /\ inv'[i] # inv[i]

WaitEndsWithOwnResponse ==
  \A i \in Invs :
    StopsWaiting(i) =>
      /\ inv[i].reqId \in pending
      /\ pending' = pending \ {inv[i].reqId}
      /\ Writable
      /\ inv'[i].pc = "done"
      /\ inv'[i].result \in {SuccessResult(JSONText(EngineResult(inv[i].reqId))),
                             ErrorResult(EngineErrorMessage(inv[i].reqId))}

\* C22: an invocation that waits for the response to its position request
\* stops waiting only in a step that delivers the response to that request;
\* no timer ends the wait.
C22_WaitEndsOnlyWithResponse == [][WaitEndsWithOwnResponse]_vars

\* An invocation still waits after the handshake timer has fired and after
\* the grace period of another invocation has elapsed.
C22_Witness ==
  \E i \in Invs : \E j \in Invs \ {i} :
    /\ inv[i].pc = "awaiting"
    /\ inv[i].reqId \in pending
    /\ initTimer = "fired"
    /\ IsDiagnostics(j) /\ Succeeded(j) /\ inv[j].waited
    /\ \E a \in 1..Len(wire) : \E b \in 1..Len(wire) :
         /\ a < b
         /\ wire[a].id = inv[i].reqId /\ wire[a].by = i
         /\ wire[b].method = DidOpen /\ wire[b].by = j

\* a step of a tool invocation or of the handshake
ToolOrHandshakeStep ==
  \/ inv' # inv /\ lastPush' = lastPush
  \/ wire' # wire
  \/ startPc' # startPc
  \/ runPc' # runPc
  \/ initRequest' # initRequest
  \/ initTimer' # initTimer

CacheKeptByToolsAndHandshake ==
  ToolOrHandshakeStep => diagnosticsCache' = diagnosticsCache

\* C23: only the publishDiagnostics handler writes the cache: every step of
\* a tool invocation and every step of the handshake leaves it unchanged.
C23_OnlyPublishWritesCache == [][CacheKeptByToolsAndHandshake]_vars

\* The cache holds an entry while a diagnostics invocation that found no
\* entry and a failed invocation have both returned.
C23_Witness ==
  /\ diagnosticsCache # <<>>
  /\ \E i \in Invs : \E j \in Invs \ {i} :
       /\ IsDiagnostics(i) /\ Succeeded(i) /\ ~inv[i].seen.has
       /\ Returned(j)
  /\ startPc = "done"

\* a step in which invocation i ends with an error result
EndsWithError(i) ==
  /\ inv[i].pc \notin {"idle", "done"}
  /\ inv'[i].pc = "done"
  /\ inv'[i].result.kind = "returned"
  /\ inv'[i].result.isError

ErrorStaysInInvocation ==
  \A i \in Invs :
    EndsWithError(i) =>
      /\ UNCHANGED <<runPc, startPc, initRequest, lspProcess, lspConnection,
                     diagnosticsCache, lastPush, wire, nextId>>
      /\ pending' \in {pending, pending \ {inv[i].reqId}}
      /\ \A j \in Invs \ {i} : inv'[j] = inv[j]

\* C24: an error of one invocation is turned into its error result and
\* reaches nothing else: the session, the engine process, the channel, the
\* cache and every other invocation are as they were.
C24_ErrorIsContained == [][ErrorStaysInInvocation]_vars

\* An invocation failed on its file read and wrote nothing; the session is
\* ready, the server connected, and the next invocation has succeeded.
C24_Witness ==
  /\ Failed(1) /\ inv[1].failure \in ReadErrors
  /\ Mine(1) = <<>>
  /\ Succeeded(2) /\ IsPosition(2)
  /\ SessionState = "ready"
  /\ runPc = "connected"

\* C25: an invocation whose file read fails writes nothing to the engine,
\* does not wait the grace period, does not read the cache, and returns an
\* error result whose text carries the message of the read error.
C25_ReadFailureSendsNothing ==
  \A i \in Invs :
    (inv[i].pc = "done" /\ inv[i].failure \in ReadErrors) =>
      /\ Mine(i) = <<>>
      /\ ~inv[i].waited
      /\ ~inv[i].seen.has /\ inv[i].seen.diagnostics = <<>>
      /\ inv[i].fileContent = NoText
      /\ inv[i].reqId = -1
      /\ inv[i].result = ErrorResult(inv[i].failure)

\* A diagnostics invocation failed on its read while the session was ready
\* and the cache held an entry for its document.
C25_Witness ==
  \E i \in Invs :
    /\ IsDiagnostics(i)
    /\ Failed(i) /\ inv[i].failure \in ReadErrors
    /\ inv[i].file # NoFile
    /\ URIOf(inv[i].file) \in DOMAIN diagnosticsCache
    /\ Writable

\* C26: the issues a diagnostics invocation lists were pushed by the engine
\* after this invocation's didOpen.
C26_ListedIssuesAreFresh ==
  \A i \in Invs :
    (IsDiagnostics(i) /\ Succeeded(i) /\ inv[i].seen.diagnostics # <<>>) =>
      inv[i].fresh

RECURSIVE Concat(_)
Concat(seqs) == IF seqs = <<>> THEN <<>> ELSE Head(seqs) \o Concat(Tail(seqs))

ChunksOf(entries) == [k \in 1..Len(entries) |-> entries[k].chunk]
PushedOf(entries) == [k \in 1..Len(entries) |-> PushedData(entries[k])]

\* C27: the filter is transparent to chunking: once every chunk has passed,
\* the concatenation of what was pushed is the filtering of the whole stream.
C27_ChunkingTransparent ==
  stdout = <<>> => Concat(PushedOf(piped)) = Filtered(Concat(ChunksOf(piped)))

\* C28: a dispatcher call that names an unknown tool writes nothing to the
\* engine before its error.
C28_UnknownToolWritesNothing ==
  \A i \in Invs : inv[i].tool = UnknownTool => Mine(i) = <<>>

LateTimerChangesNothing ==
  (initTimer = "armed" /\ initTimer' = "fired" /\ startPc = "done") =>
    UNCHANGED <<runPc, startPc, initRequest, lspProcess, lspConnection, nextId,
                pending, wire, diagnosticsCache, lastPush, inv>>

\* C29: after a successful handshake the firing of the 5 s timer changes
\* nothing: startLSP stays done and the session, the channel and every
\* invocation are as they were.
C29_LateTimerHasNoEffect == [][LateTimerChangesNothing]_vars

\* The timer has fired after the handshake succeeded; the server is connected
\* and an invocation that began afterwards has succeeded.
C29_Witness ==
  /\ startPc = "done"
  /\ initTimer = "fired"
  /\ initRequest = "fulfilled"
  /\ runPc = "connected"
  /\ SessionState = "ready"
  /\ Cardinality(Sent("initialized")) = 1
  /\ \E i \in Invs : Succeeded(i)

\* the channel exists, listens, or has sent initialize
ChannelStarted ==
  lspConnection # "null" \/ Sent("initialize") # {} \/ initRequest # "unsent"

\* a step in which the engine sends a diagnostics notification for uri
Notified(uri) ==
  /\ uri \in DOMAIN lastPush'
  /\ (uri \notin DOMAIN lastPush \/ lastPush'[uri] # lastPush[uri])

NotificationRecorded ==
  \A uri \in Uris :
    Notified(uri) =>
      /\ PublishDiagnosticsMethod \in handlers
      /\ uri \in DOMAIN diagnosticsCache'
      /\ diagnosticsCache'[uri] = lastPush'[uri]

====
